---- MODULE Spec2Model ----
(***************************************************************************)
(* Connection pool and cancellable command execution of the RESP client    *)
(* (cleint.go, connection.go, dialer.go).                                  *)
(*                                                                         *)
(* A "call" is one invocation made by a caller of the client: either       *)
(* Client.Do, or a direct GetConnection ... ReleaseConnection pair made    *)
(* through the IClient interface.  Calls run concurrently.  Each Do call   *)
(* starts one exchange goroutine that outlives the call when the call      *)
(* returns through ctx.Done().                                             *)
(***************************************************************************)
EXTENDS Integers, Sequences, FiniteSets, TLC

\* Bounds of the model.
MaxPoolSize == 2      \* poolSize argument ranges over 0..MaxPoolSize
MaxConns == 3         \* transport streams the dialer can open in one run
MaxCalls == 2         \* calls (Do or direct) made on the client in one run
MaxFrames == 2        \* reply frames the server writes on one connection's stream
MaxOps == 3           \* Send and Receive calls made with one context

Calls == 1..MaxCalls
Conns == 1..MaxConns
NoConn == 0           \* the nil IConnection
NoCall == 0           \* mu is unlocked

VARIABLES
    client,      \* "ctor": NewRedisClient running; "ready": returned client; "failed": returned error;
                 \* "panic": the process died of a run-time panic
    poolSize,    \* Client.poolSize
    auth,        \* TRUE iff Client.auth # ""
    ctorI,       \* loop index i of NewRedisClient
    ctorSucc,    \* history: connections NewRedisClient obtained
    pool,        \* Client.pool: buffered channel, capacity poolSize, FIFO
    mu,          \* Client.mu: NoCall, or the call holding the lock
    connState,   \* per connection: "none" (not dialed), "open", "closed"
    nextConn,    \* next connection identity the dialer produces
    authed,      \* connections whose AUTH handshake succeeded
    leaked,      \* streams opened by Dial, not returned and not closed
    pc,          \* per call: position of the caller
    kind,        \* per call: "none", "Do" or "direct"
    conn,        \* per call: the connection GetConnection returned
    ctx,         \* per call: the context while Do's select is pending: "live",
                 \* or "donePre", "doneFirst", "doneAfter" when it was done before
                 \* the goroutine called Send, before it delivered its outcome,
                 \* or after that; "resolved" once the select has returned
    gpc,         \* per call: position of the exchange goroutine
    errChan,     \* per call: buffer of errChan (capacity 1), "none" when empty
    replyChan,   \* per call: buffer of replyChan (capacity 1), "none" when empty
    result,      \* per call: what the call returned
    released,    \* per call: history, number of ReleaseConnection calls made
    poolClosed,  \* close(client.pool) has run
    closePc,     \* caller of Client.Close: "no" (not called), "drain", "done"
    idleAtClose, \* history: the idle connections when Client.Close started
    closeQuiet,  \* history: no call was in flight while Client.Close ran
    frames,      \* history: the reply frames the server wrote on the stream
    wire,        \* bytes of the stream net.Conn has not delivered yet
    eof,         \* the server has closed the stream
    rbuf,        \* bufio.Reader: bytes buffered and not consumed
    rpc,         \* Receive: "line" in ReadString, "bulk" in Read, "stop" no call
    blen,        \* Receive: the length parsed from the bulk header
    consumed,    \* history: bytes Receive calls have taken from the reader
    results,     \* history: one record per Receive that returned
    cctx,        \* a caller's context: "live", "canceled" or "expired"
    cop,         \* the Send or Receive in progress under cctx, or "none"
    centry,      \* cctx as it was when that call was made
    cret         \* history: one record per Send or Receive that returned

vars == <<client, poolSize, auth, ctorI, ctorSucc, pool, mu, connState, nextConn,
          authed, leaked,
          pc, kind, conn, ctx, gpc, errChan, replyChan, result, released,
          poolClosed, closePc, idleAtClose, closeQuiet,
          frames, wire, eof, rbuf, rpc, blen, consumed, results,
          cctx, cop, centry, cret>>

ctorVars == <<client, poolSize, auth, ctorI, ctorSucc>>
callVars == <<pc, kind, conn, ctx, gpc, errChan, replyChan, result, released>>

handshakeVars == <<authed, leaked>>
closeVars == <<poolClosed, closePc, idleAtClose, closeQuiet>>
codecVars == <<frames, wire, eof, rbuf, rpc, blen, consumed, results>>
poolVars == <<pool, mu, connState, nextConn>>
connVars == <<cctx, cop, centry, cret>>

PoolSet == {pool[k] : k \in 1..Len(pool)}

----------------------------------------------------------------------------
(* NewRedisConnection: dial, then AUTH when a credential is configured.    *)
(* out is what the dialer and the server do:                               *)
(* out = "ok": Dial returns a stream and, with a credential, Auth succeeds. *)
(* out = "dialfail": Dial fails, nothing is opened.                        *)
(* out = "authfail": Dial returns a stream and Auth returns an error.      *)

NewRedisConnectionOutcomes(a) ==
    IF a THEN {"ok", "dialfail", "authfail"} ELSE {"ok", "dialfail"}

\* faulty variant: the error of Auth is ignored
NewRedisConnectionErr_IgnoreAuth(out) == out = "dialfail"

\* NewRedisConnection returns nil, err: after a failed Dial and after a failed Auth
NewRedisConnectionErr(out) == out # "ok"

\* the error GetConnection hands on to its caller
ConnErr(out) == IF out = "authfail" THEN "autherr" ELSE "dialerr"

\* A returned connection gets the identity nextConn.  After a failed Auth the
\* stream is closed before nil is returned, so it is not left open.
NewRedisConnection(out) ==
    LET returned == ~NewRedisConnectionErr(out)
        opened == out # "dialfail"
        closedOnErr == out = "authfail"
    IN /\ out \in NewRedisConnectionOutcomes(auth)
       /\ returned => nextConn <= MaxConns
       /\ nextConn' = IF returned THEN nextConn + 1 ELSE nextConn
       /\ connState' = IF returned THEN [connState EXCEPT ![nextConn] = "open"]
                       ELSE connState
       /\ authed' = IF returned /\ auth /\ out = "ok" THEN authed \cup {nextConn} ELSE authed
       /\ leaked' = IF opened /\ ~returned /\ ~closedOnErr THEN leaked + 1 ELSE leaked

----------------------------------------------------------------------------
(* NewRedisClient                                                           *)

\* faulty variant: a single pooled connection is also treated as failure
CtorFailed_LE1(n) == n <= 1

\* len(client.pool) == 0
CtorFailed(n) == n = 0

Init ==
    /\ client = "ctor"
    /\ poolSize \in 0..MaxPoolSize
    /\ auth \in BOOLEAN
    /\ ctorI = 0
    /\ ctorSucc = 0
    /\ pool = <<>>
    /\ mu = NoCall
    /\ connState = [c \in Conns |-> "none"]
    /\ nextConn = 1
    /\ authed = {}
    /\ leaked = 0
    /\ pc = [i \in Calls |-> "idle"]
    /\ kind = [i \in Calls |-> "none"]
    /\ conn = [i \in Calls |-> NoConn]
    /\ ctx = [i \in Calls |-> "live"]
    /\ gpc = [i \in Calls |-> "none"]
    /\ errChan = [i \in Calls |-> "none"]
    /\ replyChan = [i \in Calls |-> "none"]
    /\ result = [i \in Calls |-> "none"]
    /\ released = [i \in Calls |-> 0]
    /\ poolClosed = FALSE
    /\ closePc = "no"
    /\ idleAtClose = {}
    /\ closeQuiet = TRUE
    /\ frames = <<>>
    /\ wire = <<>>
    /\ eof = FALSE
    /\ rbuf = <<>>
    /\ rpc = "stop"
    /\ blen = 0
    /\ consumed = 0
    /\ results = <<>>
    /\ cctx = "live"
    /\ cop = "none"
    /\ centry = "live"
    /\ cret = <<>>

\* faulty variant: the channel buffers one connection fewer than poolSize
PoolCap_OneLess(size) == size - 1

\* pool: make(chan IConnection, poolSize); a send blocks at this many values
PoolCap(size) == size

\* one iteration of the pre-population loop
NewRedisClientDial ==
    /\ client = "ctor"
    /\ ctorI < poolSize
    /\ \E out \in {"ok", "dialfail", "authfail"} :
          /\ NewRedisConnection(out)
          /\ IF ~NewRedisConnectionErr(out)
             THEN /\ Len(pool) < PoolCap(poolSize) \* channel send
                  /\ pool' = Append(pool, nextConn)
                  /\ ctorSucc' = ctorSucc + 1
             ELSE UNCHANGED <<pool, ctorSucc>>
    /\ ctorI' = ctorI + 1
    /\ UNCHANGED <<client, poolSize, auth, mu>>
    /\ UNCHANGED callVars
    /\ UNCHANGED closeVars
    /\ UNCHANGED codecVars
    /\ UNCHANGED connVars

\* loop exit and return
NewRedisClientReturn ==
    /\ client = "ctor"
    /\ ~(ctorI < poolSize)
    /\ client' = IF CtorFailed(Len(pool)) THEN "failed" ELSE "ready"
    /\ UNCHANGED <<poolSize, auth, ctorI, ctorSucc, pool, mu, connState, nextConn>>
    /\ UNCHANGED callVars
    /\ UNCHANGED closeVars
    /\ UNCHANGED codecVars
    /\ UNCHANGED connVars
    /\ UNCHANGED handshakeVars

----------------------------------------------------------------------------
(* Client.GetConnection                                                     *)

\* faulty variant: the last idle connection is never taken
SelectIdle_AtLeast2(p) == Len(p) > 1

\* select { case conn := <-client.pool: ... default: ... }: the receive case is ready
SelectIdle(p) == Len(p) > 0

\* Position of the caller once GetConnection returned a connection.  Do
\* registers the deferred release, makes the channels and starts the
\* goroutine before it reaches its select.
Acquired(k) == IF k = "Do" THEN "select" ELSE "hold"

\* faulty variant: the release is deferred before the error check
DoOnGetConnectionErr_Release(k) == IF k = "Do" THEN "release" ELSE "done"

\* if err != nil { return "", err } in Do comes before the defer
DoOnGetConnectionErr(k) == "done"

\* Calls are interchangeable: they are numbered in the order they start.
Started(i) == IF i = 1 THEN TRUE ELSE pc[i - 1] # "idle"

\* conn := <-client.pool: the oldest buffered value; on a closed and empty
\* channel the receive yields the zero value, a nil IConnection
ChanRecv(p) == IF Len(p) > 0 THEN Head(p) ELSE NoConn

\* Lock, then the select: either a pooled connection is taken and the
\* deferred Unlock runs, or the default branch starts dialing with mu held.
\* The receive case is also ready on a closed channel.
GetConnection(i, k) ==
    /\ client = "ready"
    /\ pc[i] = "idle"
    /\ Started(i)
    /\ mu = NoCall
    /\ kind' = [kind EXCEPT ![i] = k]
    /\ closeQuiet' = (closeQuiet /\ closePc # "drain")
    /\ IF SelectIdle(pool) \/ poolClosed
       THEN /\ conn' = [conn EXCEPT ![i] = ChanRecv(pool)]
            /\ pool' = IF Len(pool) > 0 THEN Tail(pool) ELSE pool
            /\ pc' = [pc EXCEPT ![i] = Acquired(k)]
            /\ gpc' = [gpc EXCEPT ![i] = IF k = "Do" THEN "send" ELSE "none"]
            /\ mu' = NoCall
       ELSE /\ mu' = i
            /\ pc' = [pc EXCEPT ![i] = "dial"]
            /\ UNCHANGED <<conn, pool, gpc>>
    /\ UNCHANGED <<connState, nextConn, errChan, replyChan, result, released>>
    /\ UNCHANGED ctorVars
    /\ UNCHANGED <<poolClosed, closePc, idleAtClose>>
    /\ UNCHANGED codecVars
    /\ UNCHANGED connVars
    /\ UNCHANGED handshakeVars

\* default branch: NewRedisConnection returns, deferred Unlock runs
GetConnectionDial(i) ==
    /\ client = "ready"
    /\ pc[i] = "dial"
    /\ mu = i
    /\ \E out \in {"ok", "dialfail", "authfail"} :
          /\ NewRedisConnection(out)
          /\ IF ~NewRedisConnectionErr(out)
             THEN /\ conn' = [conn EXCEPT ![i] = nextConn]
                  /\ pc' = [pc EXCEPT ![i] = Acquired(kind[i])]
                  /\ gpc' = [gpc EXCEPT ![i] = IF kind[i] = "Do" THEN "send" ELSE "none"]
                  /\ UNCHANGED result
             ELSE /\ pc' = [pc EXCEPT ![i] = DoOnGetConnectionErr(kind[i])]
                  /\ result' = [result EXCEPT ![i] = ConnErr(out)]
                  /\ UNCHANGED <<conn, gpc>>
    /\ mu' = NoCall
    /\ UNCHANGED <<pool, kind, ctx, errChan, replyChan, released>>
    /\ UNCHANGED ctorVars
    /\ UNCHANGED closeVars
    /\ UNCHANGED codecVars
    /\ UNCHANGED connVars

----------------------------------------------------------------------------
(* Client.ReleaseConnection                                                 *)

\* faulty variant: off by one
PoolFull_OffByOne(n, size) == n >= size - 1

\* len(client.pool) >= client.poolSize
PoolFull(n, size) == n >= size

\* Connection.Close; "closedTwice" once it has been called again
Close(cs, c) ==
    IF c \in Conns
    THEN [cs EXCEPT ![c] = IF @ = "open" THEN "closed" ELSE "closedTwice"]
    ELSE cs

\* faulty variant: the full branch drops the connection without closing it
ReleaseConnection_NoClose(c) ==
    /\ mu = NoCall
    /\ IF PoolFull(Len(pool), poolSize)
       THEN UNCHANGED <<pool, connState>>
       ELSE /\ pool' = Append(pool, c)
            /\ UNCHANGED connState
    /\ mu' = NoCall

\* faulty variant: the connection is closed first and enqueued when there is room
ReleaseConnection_CloseThenPool(c) ==
    /\ mu = NoCall
    /\ connState' = Close(connState, c)
    /\ IF PoolFull(Len(pool), poolSize)
       THEN UNCHANGED pool
       ELSE pool' = Append(pool, c)
    /\ mu' = NoCall

\* Lock; close the connection when the pool is full, else enqueue it; Unlock.
\* The body never blocks, so the lock is taken and dropped in one step.
ReleaseConnection(c) ==
    /\ client = "ready"
    /\ mu = NoCall
    /\ IF PoolFull(Len(pool), poolSize)
       THEN /\ c # NoConn                      \* conn.Close() on nil panics
            /\ connState' = Close(connState, c)
            /\ UNCHANGED pool
       ELSE /\ ~poolClosed                     \* send on a closed channel panics
            /\ Len(pool) < PoolCap(poolSize)   \* channel send
            /\ pool' = Append(pool, c)
            /\ UNCHANGED connState
    /\ mu' = NoCall

\* a caller of the IClient interface hands back the connection it holds
DirectRelease(i) ==
    /\ pc[i] = "hold"
    /\ ReleaseConnection(conn[i])
    /\ released' = [released EXCEPT ![i] = @ + 1]
    /\ pc' = [pc EXCEPT ![i] = "done"]
    /\ UNCHANGED <<nextConn, kind, conn, ctx, gpc, errChan, replyChan, result>>
    /\ UNCHANGED ctorVars
    /\ UNCHANGED closeVars
    /\ UNCHANGED codecVars
    /\ UNCHANGED connVars
    /\ UNCHANGED handshakeVars

----------------------------------------------------------------------------
(* Client.Do                                                                *)

\* what conn.Send can return: nil or an I/O error; ctx.Err() when ctx was done
\* at the call.  Once ctx is done a Send that completed is followed by a
\* Receive that returns ctx.Err() at once, so the goroutine's outcome is an
\* error in either case.
SendOutcomes(cx) ==
    IF cx = "live" THEN {"ok", "io"}
    ELSE IF cx = "donePre" THEN {"ctx"}
    ELSE {"io", "ctx"}

\* what conn.Receive can return: a reply, the error of a '-' reply, an I/O
\* error, or ctx.Err() once ctx is done
ReceiveOutcomes(cx) == {"reply", "srv", "io"} \cup (IF cx = "live" THEN {} ELSE {"ctx"})

\* faulty variant: the ctx.Done() return skips the release
AfterSelect_SkipOnCtx(r) == IF r = "ctx" THEN "done" ELSE "release"

\* defer client.ReleaseConnection(conn): every return of the select runs it
AfterSelect(r) == "release"

\* ctx once Do's select has returned.  From then on only a goroutine that
\* outlived Do reads the context, and Do returns before its goroutine has
\* finished through the ctx.Done() case alone: the context it reads is done.
Resolved(cx) == "resolved"

\* faulty variant: the channels are unbuffered
ChanCap_Unbuffered(ch) == 0

\* errChan := make(chan error, 1); replyChan := make(chan string, 1)
ChanCap(ch) == 1

\* values buffered in errChan or replyChan of call i
ChanLen(i, ch) ==
    IF ch = "err" THEN (IF errChan[i] = "none" THEN 0 ELSE 1)
    ELSE (IF replyChan[i] = "none" THEN 0 ELSE 1)

\* errChan <- err / replyChan <- reply by the goroutine of call i.  When Do is
\* parked in its select the value is handed to it directly and Do resumes
\* with that case; otherwise the value is buffered, which needs room.
Deliver(i, ch, v) ==
    /\ gpc' = [gpc EXCEPT ![i] = "done"]
    /\ IF pc[i] = "parked"
       THEN /\ result' = [result EXCEPT ![i] = v]
            /\ pc' = [pc EXCEPT ![i] = AfterSelect(v)]
            /\ ctx' = [ctx EXCEPT ![i] = Resolved(@)]
            /\ UNCHANGED <<errChan, replyChan>>
       ELSE /\ ChanLen(i, ch) < ChanCap(ch)
            /\ IF ch = "err"
               THEN errChan' = [errChan EXCEPT ![i] = v] /\ UNCHANGED replyChan
               ELSE replyChan' = [replyChan EXCEPT ![i] = v] /\ UNCHANGED errChan
            /\ UNCHANGED <<pc, result, ctx>>

\* goroutine: err := conn.Send(ctx, command)
Send(i) ==
    /\ client = "ready"
    /\ gpc[i] = "send"
    /\ conn[i] # NoConn
    /\ \E out \in SendOutcomes(ctx[i]) :
          IF out = "ok"
          THEN /\ gpc' = [gpc EXCEPT ![i] = "recv"]
               /\ UNCHANGED <<pc, result, ctx, errChan, replyChan>>
          ELSE Deliver(i, "err", out)
    /\ UNCHANGED <<pool, mu, connState, nextConn, kind, conn, released>>
    /\ UNCHANGED ctorVars
    /\ UNCHANGED closeVars
    /\ UNCHANGED codecVars
    /\ UNCHANGED connVars
    /\ UNCHANGED handshakeVars

\* goroutine: reply, err := conn.Receive(ctx)
Receive(i) ==
    /\ client = "ready"
    /\ gpc[i] = "recv"
    /\ \E out \in ReceiveOutcomes(ctx[i]) :
          IF out = "reply"
          THEN Deliver(i, "reply", out)
          ELSE Deliver(i, "err", out)
    /\ UNCHANGED <<pool, mu, connState, nextConn, kind, conn, released>>
    /\ UNCHANGED ctorVars
    /\ UNCHANGED closeVars
    /\ UNCHANGED codecVars
    /\ UNCHANGED connVars
    /\ UNCHANGED handshakeVars

\* the cases of Do's select that can proceed
SelectReady(i) ==
    (IF ctx[i] = "live" THEN {} ELSE {"ctx"})
    \cup (IF errChan[i] = "none" THEN {} ELSE {"err"})
    \cup (IF replyChan[i] = "none" THEN {} ELSE {"reply"})

\* Do reaches its select: one of the ready cases is chosen (any of them when
\* several are ready); with none ready Do parks.
DoSelect(i) ==
    /\ client = "ready"
    /\ pc[i] = "select"
    /\ IF SelectReady(i) = {}
       THEN /\ pc' = [pc EXCEPT ![i] = "parked"]
            /\ UNCHANGED <<result, ctx, errChan, replyChan>>
       ELSE \E r \in SelectReady(i) :
              LET v == IF r = "ctx" THEN "ctx"
                       ELSE IF r = "err" THEN errChan[i] ELSE replyChan[i]
              IN /\ result' = [result EXCEPT ![i] = v]
                 /\ pc' = [pc EXCEPT ![i] = AfterSelect(v)]
                 /\ ctx' = [ctx EXCEPT ![i] = Resolved(@)]
                 /\ errChan' = IF r = "err" THEN [errChan EXCEPT ![i] = "none"] ELSE errChan
                 /\ replyChan' = IF r = "reply" THEN [replyChan EXCEPT ![i] = "none"] ELSE replyChan
    /\ UNCHANGED <<pool, mu, connState, nextConn, kind, conn, gpc, released>>
    /\ UNCHANGED ctorVars
    /\ UNCHANGED closeVars
    /\ UNCHANGED codecVars
    /\ UNCHANGED connVars
    /\ UNCHANGED handshakeVars

\* The caller's context is cancelled or its deadline passes before Do's
\* select has resolved.  ctx records whether that happened before the
\* goroutine delivered its outcome.  A Do parked in its select resumes with
\* the ctx.Done() case.
CtxDone(i) ==
    /\ client = "ready"
    /\ ctx[i] = "live"
    /\ pc[i] \in {"dial", "select", "parked"}
    /\ kind[i] = "Do"
    /\ IF pc[i] = "parked"
       THEN /\ result' = [result EXCEPT ![i] = "ctx"]
            /\ pc' = [pc EXCEPT ![i] = AfterSelect("ctx")]
            /\ ctx' = [ctx EXCEPT ![i] = Resolved(@)]
       ELSE /\ ctx' = [ctx EXCEPT ![i] = IF gpc[i] = "done" THEN "doneAfter"
                                        ELSE IF gpc[i] = "none" THEN "donePre"
                                        ELSE "doneFirst"]
            /\ UNCHANGED <<pc, result>>
    /\ UNCHANGED <<pool, mu, connState, nextConn, kind, conn, gpc, errChan, replyChan, released>>
    /\ UNCHANGED ctorVars
    /\ UNCHANGED closeVars
    /\ UNCHANGED codecVars
    /\ UNCHANGED connVars
    /\ UNCHANGED handshakeVars

\* the deferred client.ReleaseConnection(conn) runs and Do returns
DoRelease(i) ==
    /\ pc[i] = "release"
    /\ ReleaseConnection(conn[i])
    /\ released' = [released EXCEPT ![i] = @ + 1]
    /\ pc' = [pc EXCEPT ![i] = "done"]
    /\ UNCHANGED <<nextConn, kind, conn, ctx, gpc, errChan, replyChan, result>>
    /\ UNCHANGED ctorVars
    /\ UNCHANGED closeVars
    /\ UNCHANGED codecVars
    /\ UNCHANGED connVars
    /\ UNCHANGED handshakeVars

\* Do is called, with a context that is live or already done
Do(i) ==
    /\ GetConnection(i, "Do")
    /\ \E cx \in {"live", "donePre"} : ctx' = [ctx EXCEPT ![i] = cx]

\* a caller of the IClient interface calls GetConnection itself
DirectGet(i) ==
    /\ GetConnection(i, "direct")
    /\ UNCHANGED ctx

----------------------------------------------------------------------------
(* Client.Close and the run-time panics that follow it                      *)

\* faulty variant: the drain stops with one connection left
RangeEnds_OneLeft(p, closed) == closed /\ Len(p) <= 1

\* for conn := range client.pool ends when the channel is closed and empty
RangeEnds(p, closed) == closed /\ Len(p) = 0

\* no call is between GetConnection and its return
NoCallInFlight == \A i \in Calls : pc[i] \in {"idle", "done"}

\* close(client.pool); no lock is taken
ClientClose ==
    /\ client = "ready"
    /\ closePc = "no"
    /\ poolClosed' = TRUE
    /\ closePc' = "drain"
    /\ idleAtClose' = PoolSet
    /\ closeQuiet' = NoCallInFlight
    /\ UNCHANGED <<pool, mu, connState, nextConn>>
    /\ UNCHANGED <<ctorVars, callVars, handshakeVars, codecVars, connVars>>

\* one iteration of the range loop: _ = conn.Close()
CloseDrain ==
    /\ client = "ready"
    /\ closePc = "drain"
    /\ ~RangeEnds(pool, poolClosed)
    /\ connState' = Close(connState, Head(pool))
    /\ pool' = Tail(pool)
    /\ UNCHANGED <<mu, nextConn, closeVars>>
    /\ UNCHANGED <<ctorVars, callVars, handshakeVars, codecVars, connVars>>

\* the range loop ends and Close returns
CloseReturn ==
    /\ client = "ready"
    /\ closePc = "drain"
    /\ RangeEnds(pool, poolClosed)
    /\ closePc' = "done"
    /\ UNCHANGED <<pool, mu, connState, nextConn, poolClosed, idleAtClose, closeQuiet>>
    /\ UNCHANGED <<ctorVars, callVars, handshakeVars, codecVars, connVars>>

\* the process dies: nothing runs afterwards
Panic ==
    /\ client' = "panic"
    /\ UNCHANGED <<poolSize, auth, ctorI, ctorSucc, pool, mu, connState, nextConn>>
    /\ UNCHANGED <<callVars, handshakeVars, closeVars, codecVars, connVars>>

\* Client.Close called again: close of a closed channel
CloseAgain ==
    /\ client = "ready"
    /\ closePc = "done"
    /\ Panic

\* the goroutine calls Send on the nil connection a closed pool handed out
SendNil(i) ==
    /\ client = "ready"
    /\ gpc[i] = "send"
    /\ conn[i] = NoConn
    /\ Panic

\* ReleaseConnection closes a nil connection or sends on the closed channel
ReleasePanic(i) ==
    /\ client = "ready"
    /\ pc[i] \in {"release", "hold"}
    /\ mu = NoCall
    /\ IF PoolFull(Len(pool), poolSize) THEN conn[i] = NoConn ELSE poolClosed
    /\ Panic

----------------------------------------------------------------------------
(* Connection.Receive on one connection's stream (connection.go)            *)
(* A byte is a one-character string, a byte string a sequence of them.      *)

CR == "\r"
LF == "\n"
NUL == "NUL"          \* the zero byte of a fresh make([]byte, n)

\* the reply frames a server writes
StatusOK == <<"+", "O", "K", CR, LF>>
ErrorE == <<"-", "E", CR, LF>>
Integer1 == <<":", "1", CR, LF>>
NilBulk == <<"$", "-", "1", CR, LF>>
BulkAB == <<"$", "2", CR, LF, "a", "b", CR, LF>>
Array1 == <<"*", "1", CR, LF, ":", "1", CR, LF>>
ReplyFrames == {StatusOK, ErrorE, Integer1, NilBulk, BulkAB, Array1}

RECURSIVE Concat(_)
Concat(fs) == IF fs = <<>> THEN <<>> ELSE Head(fs) \o Concat(Tail(fs))

Min(a, b) == IF a < b THEN a ELSE b

\* strings.TrimSuffix(s, "\r\n")
TrimSuffix(s) ==
    IF Len(s) >= 2 /\ s[Len(s) - 1] = CR /\ s[Len(s)] = LF
    THEN SubSeq(s, 1, Len(s) - 2)
    ELSE s

Digits == {"0", "1", "2", "3", "4", "5", "6", "7", "8", "9"}
DigitVal(c) ==
    CASE c = "0" -> 0 [] c = "1" -> 1 [] c = "2" -> 2 [] c = "3" -> 3
      [] c = "4" -> 4 [] c = "5" -> 5 [] c = "6" -> 6 [] c = "7" -> 7
      [] c = "8" -> 8 [] c = "9" -> 9

IsDigits(s) == Len(s) > 0 /\ \A k \in 1..Len(s) : s[k] \in Digits

RECURSIVE Decimal(_)
Decimal(s) ==
    IF s = <<>> THEN 0
    ELSE Decimal(SubSeq(s, 1, Len(s) - 1)) * 10 + DigitVal(s[Len(s)])

\* length, _ := strconv.Atoi(s): the error is dropped, leaving 0
Atoi(s) ==
    IF IsDigits(s) THEN Decimal(s)
    ELSE IF Len(s) > 1 /\ s[1] \in {"-", "+"} /\ IsDigits(Tail(s))
         THEN IF s[1] = "-" THEN 0 - Decimal(Tail(s)) ELSE Decimal(Tail(s))
         ELSE 0

\* index of the first '\n' in the buffer, 0 when there is none
FirstLF(b) ==
    IF \E k \in 1..Len(b) : b[k] = LF
    THEN CHOOSE k \in 1..Len(b) : b[k] = LF /\ \A m \in 1..(k - 1) : b[m] # LF
    ELSE 0

RECURSIVE Zeros(_)
Zeros(n) == IF n <= 0 THEN <<>> ELSE <<NUL>> \o Zeros(n - 1)

\* the reader has nothing to return and calls the stream's Read
NeedsData ==
    \/ rpc = "line" /\ FirstLF(rbuf) = 0
    \/ rpc = "bulk" /\ rbuf = <<>>

\* a Receive returns (v, e) having taken `used` more bytes from the reader;
\* the caller issues the next Receive while replies remain
Return(v, e, used) ==
    /\ results' = Append(results, [val |-> v, err |-> e, to |-> consumed + used])
    /\ consumed' = consumed + used
    /\ rpc' = IF Len(results) + 1 < Len(frames) THEN "line" ELSE "stop"

\* one Read of the stream hands the reader some of the pending bytes
Fill ==
    /\ NeedsData
    /\ wire # <<>>
    /\ \E n \in 1..Len(wire) :
          /\ rbuf' = rbuf \o SubSeq(wire, 1, n)
          /\ wire' = SubSeq(wire, n + 1, Len(wire))
    /\ UNCHANGED <<frames, eof, rpc, blen, consumed, results>>
    /\ UNCHANGED <<ctorVars, poolVars, callVars, handshakeVars, closeVars, connVars>>

\* the server closes the stream; what it had not written is never delivered
ServerClose ==
    /\ ~eof
    /\ rpc # "stop"
    /\ eof' = TRUE
    /\ wire' = <<>>
    /\ UNCHANGED <<frames, rbuf, rpc, blen, consumed, results>>
    /\ UNCHANGED <<ctorVars, poolVars, callVars, handshakeVars, closeVars, connVars>>

\* ReadString or Read meets the end of the stream: Receive returns "", err
ReceiveEOF ==
    /\ NeedsData
    /\ wire = <<>>
    /\ eof
    /\ Return(<<>>, "io", Len(rbuf))
    /\ rbuf' = <<>>
    /\ UNCHANGED <<frames, wire, eof, blen>>
    /\ UNCHANGED <<ctorVars, poolVars, callVars, handshakeVars, closeVars, connVars>>

\* ReadString('\n') returns a line and Receive dispatches on its first byte
ReceiveLine ==
    /\ rpc = "line"
    /\ FirstLF(rbuf) > 0
    /\ LET n == FirstLF(rbuf)
           line == SubSeq(rbuf, 1, n)
           length == Atoi(TrimSuffix(Tail(line)))
       IN /\ rbuf' = SubSeq(rbuf, n + 1, Len(rbuf))
          /\ IF line[1] = "-"
             THEN /\ Return(TrimSuffix(Tail(line)), "srv", n)
                  /\ UNCHANGED blen
             ELSE IF line[1] = "$"
             THEN IF length = -1
                  THEN /\ Return(<<>>, "nil", n)
                       /\ UNCHANGED blen
                  ELSE /\ rpc' = "bulk"
                       /\ blen' = length
                       /\ consumed' = consumed + n
                       /\ UNCHANGED results
             ELSE /\ Return(TrimSuffix(line), "nil", n)
                  /\ UNCHANGED blen
    /\ UNCHANGED <<frames, wire, eof>>
    /\ UNCHANGED <<ctorVars, poolVars, callVars, handshakeVars, closeVars, connVars>>

\* buf := make([]byte, length+2); rw.Read(buf) copies what is buffered, at
\* most len(buf) bytes, and reports no error; Receive returns buf[:length]
ReceiveBulk ==
    /\ rpc = "bulk"
    /\ rbuf # <<>>
    /\ LET n == Min(blen + 2, Len(rbuf))
           buf == SubSeq(rbuf, 1, n) \o Zeros(blen + 2 - n)
       IN /\ rbuf' = SubSeq(rbuf, n + 1, Len(rbuf))
          /\ Return(SubSeq(buf, 1, blen), "nil", n)
    /\ UNCHANGED <<frames, wire, eof, blen>>
    /\ UNCHANGED <<ctorVars, poolVars, callVars, handshakeVars, closeVars, connVars>>

----------------------------------------------------------------------------
(* Connection.Send(ctx, ...) and Connection.Receive(ctx) under cancellation  *)

\* ctx.Err()
CtxErr(cx) ==
    IF cx = "canceled" THEN "Canceled"
    ELSE IF cx = "expired" THEN "DeadlineExceeded" ELSE "nil"

\* faulty variant: only a deadline that has passed stops the call
RefusedAtEntry_DeadlineOnly(cx) == cx = "expired"

\* Send and Receive return ctx.Err() without touching the stream when the
\* context is already done at the call
RefusedAtEntry(cx) == cx # "live"

\* what a Send or Receive that went to the stream can return: nil, an I/O
\* error, or ctx.Err() when the context became done meanwhile
CompletionOutcomes(cx) == {"nil", "io"} \cup (IF cx = "live" THEN {} ELSE {CtxErr(cx)})

\* the caller's context is cancelled, or its deadline passes
CtxFire ==
    /\ cctx = "live"
    /\ Len(cret) < MaxOps
    /\ cctx' \in {"canceled", "expired"}
    /\ UNCHANGED <<cop, centry, cret>>
    /\ UNCHANGED <<ctorVars, poolVars, callVars, handshakeVars, closeVars, codecVars>>

\* Send or Receive is called with the context
CallWithCtx(op) ==
    /\ cop = "none"
    /\ Len(cret) < MaxOps
    /\ IF RefusedAtEntry(cctx)
       THEN /\ cret' = Append(cret, [op |-> op, entry |-> cctx, err |-> CtxErr(cctx),
                                     performed |-> FALSE])
            /\ UNCHANGED <<cop, centry>>
       ELSE /\ cop' = op
            /\ centry' = cctx
            /\ UNCHANGED cret
    /\ UNCHANGED cctx
    /\ UNCHANGED <<ctorVars, poolVars, callVars, handshakeVars, closeVars, codecVars>>

\* the write and flush, or the read, ends and the call returns
ReturnWithCtx ==
    /\ cop # "none"
    /\ \E e \in CompletionOutcomes(cctx) :
          cret' = Append(cret, [op |-> cop, entry |-> centry, err |-> e,
                                performed |-> (e = "nil")])
    /\ cop' = "none"
    /\ UNCHANGED <<cctx, centry>>
    /\ UNCHANGED <<ctorVars, poolVars, callVars, handshakeVars, closeVars, codecVars>>

\* Do hands Receive's reply and error to the command wrappers unchanged.
\* Each wrapper is given one returned Receive r and yields what it returns.

\* Client.Set: error, or whether the reply is "OK"
Set(r) ==
    IF r.err # "nil" THEN r.err
    ELSE IF r.val # <<"O", "K">> THEN "unexpected" ELSE "nil"

\* Client.SetWithTTL: error, or whether the reply is "+OK"
SetWithTTL(r) ==
    IF r.err # "nil" THEN r.err
    ELSE IF r.val # <<"+", "O", "K">> THEN "unexpected" ELSE "nil"

\* Client.Get: the error, or the reply whatever it is
Get(r) ==
    IF r.err # "nil" THEN [val |-> <<>>, err |-> r.err]
    ELSE [val |-> r.val, err |-> "nil"]

----------------------------------------------------------------------------

Next ==
    \/ NewRedisClientDial
    \/ NewRedisClientReturn
    \/ \E i \in Calls : Do(i)
    \/ \E i \in Calls : DirectGet(i)
    \/ \E i \in Calls : GetConnectionDial(i)
    \/ \E i \in Calls : Send(i)
    \/ \E i \in Calls : Receive(i)
    \/ \E i \in Calls : DoSelect(i)
    \/ \E i \in Calls : CtxDone(i)
    \/ \E i \in Calls : DoRelease(i)
    \/ \E i \in Calls : DirectRelease(i)

Spec == Init /\ [][Next]_vars

\* Do is called with a context that is never cancelled
DoLive(i) ==
    /\ GetConnection(i, "Do")
    /\ UNCHANGED ctx

\* the client with Client.Close; the contexts given to Do stay live
NextClose ==
    \/ NewRedisClientDial
    \/ NewRedisClientReturn
    \/ \E i \in Calls : DoLive(i)
    \/ \E i \in Calls : DirectGet(i)
    \/ \E i \in Calls : GetConnectionDial(i)
    \/ \E i \in Calls : Send(i)
    \/ \E i \in Calls : Receive(i)
    \/ \E i \in Calls : DoSelect(i)
    \/ \E i \in Calls : DoRelease(i)
    \/ \E i \in Calls : DirectRelease(i)
    \/ ClientClose
    \/ CloseDrain
    \/ CloseReturn
    \/ CloseAgain
    \/ \E i \in Calls : SendNil(i)
    \/ \E i \in Calls : ReleasePanic(i)

SpecClose == Init /\ [][NextClose]_vars

\* one connection's stream: the server has written some reply frames and the
\* caller issues one Receive per frame
InitCodec ==
    /\ client = "ready"
    /\ poolSize = 1
    /\ auth = FALSE
    /\ ctorI = 1
    /\ ctorSucc = 1
    /\ pool = <<>>
    /\ mu = NoCall
    /\ connState = [c \in Conns |-> IF c = 1 THEN "open" ELSE "none"]
    /\ nextConn = 2
    /\ authed = {}
    /\ leaked = 0
    /\ pc = [i \in Calls |-> "idle"]
    /\ kind = [i \in Calls |-> "none"]
    /\ conn = [i \in Calls |-> NoConn]
    /\ ctx = [i \in Calls |-> "live"]
    /\ gpc = [i \in Calls |-> "none"]
    /\ errChan = [i \in Calls |-> "none"]
    /\ replyChan = [i \in Calls |-> "none"]
    /\ result = [i \in Calls |-> "none"]
    /\ released = [i \in Calls |-> 0]
    /\ poolClosed = FALSE
    /\ closePc = "no"
    /\ idleAtClose = {}
    /\ closeQuiet = TRUE
    /\ \E k \in 1..MaxFrames : frames \in [1..k -> ReplyFrames]
    /\ wire = Concat(frames)
    /\ eof = FALSE
    /\ rbuf = <<>>
    /\ rpc = "line"
    /\ blen = 0
    /\ consumed = 0
    /\ results = <<>>
    /\ cctx = "live"
    /\ cop = "none"
    /\ centry = "live"
    /\ cret = <<>>

NextCodec ==
    \/ Fill
    \/ ServerClose
    \/ ReceiveEOF
    \/ ReceiveLine
    \/ ReceiveBulk

SpecCodec == InitCodec /\ [][NextCodec]_vars

\* Send and Receive calls on one connection under one context
InitConn == Init /\ poolSize = 1 /\ ~auth

NextConn ==
    \/ CtxFire
    \/ \E op \in {"Send", "Receive"} : CallWithCtx(op)
    \/ ReturnWithCtx

SpecConn == InitConn /\ [][NextConn]_vars

TypeOK ==
    /\ client \in {"ctor", "ready", "failed", "panic"}
    /\ poolSize \in 0..MaxPoolSize
    /\ mu \in {NoCall} \cup Calls
    /\ \A i \in Calls :
          /\ pc[i] \in {"idle", "dial", "select", "parked", "release", "hold", "done"}
          /\ gpc[i] \in {"none", "send", "recv", "done"}
          /\ conn[i] \in {NoConn} \cup Conns
    /\ rpc \in {"line", "bulk", "stop"}
    /\ Len(frames) <= MaxFrames /\ Len(results) <= Len(frames)
    /\ consumed + Len(rbuf) + Len(wire) <= Len(Concat(frames))

----------------------------------------------------------------------------
(* Properties                                                               *)

\* call i holds a connection it has not yet handed to ReleaseConnection
CheckedOut(i) == pc[i] \in {"select", "parked", "release", "hold"}

\* the exchange goroutine of call i is still using its connection
Exchanging(i) == gpc[i] \in {"send", "recv"}

\* the step in which call i runs ReleaseConnection
ReleaseStep(i) == pc[i] \in {"release", "hold"} /\ pc'[i] = "done"

\* the step in which call i enters GetConnection
GetStep(i) == pc[i] = "idle" /\ pc'[i] # "idle"

\* C1: the idle pool never holds more than poolSize connections, and a
\* connection released while the pool holds poolSize connections is closed
\* and not retained.
C1_PoolBounded ==
    /\ [](Len(pool) <= poolSize)
    /\ [][\A i \in Calls :
            (ReleaseStep(i) /\ Len(pool) >= poolSize /\ conn[i] \in Conns)
               => (connState'[conn[i]] = "closed" /\ pool' = pool)]_vars

C1_Witness ==
    \E i \in Calls :
       /\ pc[i] = "done" /\ released[i] = 1 /\ conn[i] \in Conns
       /\ connState[conn[i]] = "closed"
       /\ poolSize > 0 /\ Len(pool) = poolSize

\* C2: a connection on which an exchange goroutine is still running is never
\* held by another call.
C2_ExclusiveUse ==
    \A i, j \in Calls :
       (i # j /\ conn[i] # NoConn /\ conn[i] = conn[j])
          => ~(Exchanging(i) /\ (CheckedOut(j) \/ Exchanging(j)))

\* C3: the connection of a Do call that returned the context's error is never
\* in the idle pool afterwards.
C3_CancelledNotPooled ==
    \A i \in Calls :
       (kind[i] = "Do" /\ pc[i] = "done" /\ result[i] = "ctx") => conn[i] \notin PoolSet

\* C4: the connection of a Do call whose send or receive failed with an I/O
\* error is closed and is never in the idle pool afterwards.
C4_FaultedNotPooled ==
    \A i \in Calls :
       (kind[i] = "Do" /\ pc[i] = "done" /\ result[i] = "io")
          => (connState[conn[i]] = "closed" /\ conn[i] \notin PoolSet)

\* C5: a Do call whose checkout succeeded hands its connection to
\* ReleaseConnection exactly once, before it returns, on every exit path.
C5_ReleasedExactlyOnce ==
    \A i \in Calls :
       kind[i] = "Do" =>
          /\ released[i] <= 1
          /\ (pc[i] = "done" /\ conn[i] # NoConn) => released[i] = 1
          /\ pc[i] # "done" => released[i] = 0

C5_Witness ==
    \E i, j \in Calls :
       /\ kind[i] = "Do" /\ pc[i] = "done" /\ result[i] = "ctx" /\ released[i] = 1
       /\ kind[j] = "Do" /\ pc[j] = "done" /\ result[j] \in {"reply", "srv", "io"}
       /\ released[j] = 1

\* C6: when the context is done before the exchange produced its result, Do
\* returns the context's error and never the reply.
C6_CtxFirstWins ==
    [][\A i \in Calls :
         (pc[i] = "select" /\ ctx[i] \in {"donePre", "doneFirst"} /\ pc'[i] # "select")
            => result'[i] = "ctx"]_vars

\* C7: for a pool constructed with poolSize connections, whenever no
\* connection is checked out the idle pool holds exactly poolSize connections.
C7_StableAtCapacity ==
    (client = "ready" /\ ctorSucc = poolSize /\ \A i \in Calls : ~CheckedOut(i))
       => Len(pool) = poolSize

C7_Witness ==
    /\ client = "ready" /\ ctorSucc = poolSize
    /\ \A i \in Calls : pc[i] = "done"
    /\ \E i \in Calls : conn[i] \in Conns /\ conn[i] > poolSize
    /\ \E c \in Conns : connState[c] = "closed"
    /\ Len(pool) = poolSize

\* C8: GetConnection with a non-empty idle pool takes the oldest idle
\* connection (idle count minus one) without dialing; a connection is dialed
\* only when the idle pool is empty.
C8_ReuseBeforeDial ==
    [][\A i \in Calls :
         /\ (GetStep(i) /\ Len(pool) > 0)
               => /\ Len(pool') = Len(pool) - 1
                  /\ conn'[i] = Head(pool)
                  /\ pc'[i] # "dial"
                  /\ nextConn' = nextConn /\ connState' = connState
         /\ (client = "ready" /\ (pc'[i] = "dial" \/ nextConn' # nextConn))
               => pool = <<>> /\ pool' = <<>>]_vars

C8_Witness ==
    /\ poolSize = 2 /\ ctorSucc = 2 /\ nextConn = 3
    /\ Len(pool) = 1
    /\ \E i \in Calls : CheckedOut(i) /\ conn[i] = 1

\* C9: when dialing the on-demand connection fails, GetConnection returns no
\* connection and leaves the idle pool unchanged, and Do returns that error
\* without starting the exchange and without calling ReleaseConnection.
C9_DialFailure ==
    /\ [](\A i \in Calls :
            result[i] \in {"dialerr", "autherr"}
               => /\ pc[i] = "done" /\ conn[i] = NoConn
                  /\ gpc[i] = "none" /\ released[i] = 0)
    /\ [][\A i \in Calls :
            (pc[i] = "dial" /\ result'[i] \in {"dialerr", "autherr"})
               => (pool = <<>> /\ pool' = pool)]_vars

C9_Witness ==
    \E i \in Calls : kind[i] = "Do" /\ pc[i] = "done" /\ result[i] = "dialerr"

\* C10: NewRedisClient makes poolSize attempts, pools exactly the successful
\* ones, and fails if and only if none succeeded.
C10_Construction ==
    /\ [](client = "ctor" => (ctorI <= poolSize /\ Len(pool) = ctorSucc))
    /\ [][(client = "ctor" /\ client' # "ctor")
            => /\ ctorI = poolSize
               /\ (client' = "failed") <=> (ctorSucc = 0)
               /\ (client' = "ready")
                     => (Len(pool') = ctorSucc /\ ctorSucc \in 1..poolSize)]_vars

C10_Witness ==
    /\ client = "ready" /\ poolSize = 2 /\ ctorSucc = 1 /\ ctorI = 2
    /\ \A i \in Calls : pc[i] = "idle"

\* C11: a connection whose handshake failed is closed and never returned or
\* pooled; with a credential, every connection in the idle pool or held by a
\* call has completed a successful authentication.
C11_OnlyAuthenticated ==
    /\ leaked = 0
    /\ auth => /\ PoolSet \subseteq authed
               /\ \A i \in Calls : conn[i] # NoConn => conn[i] \in authed

C11_Witness ==
    /\ auth
    /\ \E i, j \in Calls :
          /\ result[i] = "autherr" /\ conn[i] = NoConn
          /\ CheckedOut(j) /\ conn[j] \in authed

\* C12: once Client.Close has returned, having run with no call in flight,
\* the idle pool is empty and closed and every connection that was idle when
\* Close started has been closed.
C12_CloseDrains ==
    (closePc = "done" /\ closeQuiet)
       => /\ pool = <<>> /\ poolClosed
          /\ \A c \in idleAtClose : connState[c] = "closed"

C12_Witness ==
    /\ closePc = "done" /\ closeQuiet /\ client = "ready"
    /\ Cardinality(idleAtClose) = 2
    /\ \E i \in Calls : pc[i] = "done" /\ conn[i] \in idleAtClose

\* C13: on a client that has not been closed, a caller of ReleaseConnection
\* that can take the pool lock completes at once, closing the connection or
\* enqueuing it; it never waits for room in the channel.
C13_ReleaseNeverBlocks ==
    \A i \in Calls :
        (client = "ready" /\ pc[i] \in {"release", "hold"} /\ mu = NoCall)
           => ENABLED (DoRelease(i) \/ DirectRelease(i))

C13_Witness ==
    \E i, j \in Calls :
        /\ i # j
        /\ pc[i] = "release" /\ pc[j] = "hold" /\ mu = NoCall
        /\ Len(pool) = poolSize - 1

\* C14: while one call is dialing an overflow connection inside GetConnection,
\* no other call's ReleaseConnection or GetConnection waits for the pool lock.
C14_DialOutsideLock ==
    \A i, j \in Calls :
        (i # j /\ client = "ready" /\ pc[i] = "dial")
           => /\ pc[j] \in {"release", "hold"}
                    => ENABLED (DoRelease(j) \/ DirectRelease(j))
              /\ (pc[j] = "idle" /\ Started(j))
                    => ENABLED (Do(j) \/ DirectGet(j))

\* offset in the stream at which reply frame k starts
FrameStart(k) == Len(Concat(SubSeq(frames, 1, k - 1)))

\* offset in the stream at which the k-th Receive started reading
ReceiveStart(k) == IF k = 1 THEN 0 ELSE results[k - 1].to

\* the k-th Receive started at the first byte of the k-th reply frame
Aligned(k) == ReceiveStart(k) = FrameStart(k)

\* C15: Set and SetWithTTL succeed on what Receive returns for +OK\r\n, fail
\* on what it returns for any other reply, and never disagree.
C15_SameStatusConvention ==
    \A k \in 1..Len(results) :
        LET r == results[k]
        IN /\ (Set(r) = "nil") <=> (SetWithTTL(r) = "nil")
           /\ (Aligned(k) /\ r.err = "nil") =>
                 IF frames[k] = StatusOK
                 THEN Set(r) = "nil" /\ SetWithTTL(r) = "nil"
                 ELSE Set(r) # "nil" /\ SetWithTTL(r) # "nil"

\* C16: Get returns without error only for a bulk reply or a nil bulk, the
\* latter as the empty string.
C16_GetOnlyBulk ==
    \A k \in 1..Len(results) :
        (Aligned(k) /\ Get(results[k]).err = "nil")
           => /\ frames[k] \in {BulkAB, NilBulk}
              /\ frames[k] = NilBulk => Get(results[k]).val = <<>>

\* C17: Receive on +OK\r\n returns OK, without the sigil and the terminator.
C17_StatusStripped ==
    \A k \in 1..Len(results) :
        (Aligned(k) /\ frames[k] = StatusOK /\ results[k].err = "nil")
           => results[k].val = <<"O", "K">>

\* C18: Receive returns an error and no value for a reply whose first byte is
\* none of + - : $, an array reply in particular.
C18_ArrayRejected ==
    \A k \in 1..Len(results) :
        (Aligned(k) /\ frames[k][1] \notin {"+", "-", ":", "$"})
           => (results[k].err # "nil" /\ results[k].val = <<>>)

\* C19: for a bulk reply Receive returns the whole payload or an error; it
\* returns an error when fewer than length+2 bytes follow the header.
C19_BulkExact ==
    \A k \in 1..Len(results) :
        (Aligned(k) /\ frames[k] = BulkAB /\ results[k].err = "nil")
           => /\ results[k].val = <<"a", "b">>
              /\ results[k].to - ReceiveStart(k) = Len(BulkAB)

\* C20: on a stream of status, error, integer and bulk replies that stays
\* open, the k-th Receive consumes exactly the bytes of the k-th reply frame,
\* however the stream chunks its reads.
C20_OneFramePerReceive ==
    (~eof /\ \A k \in 1..Len(frames) : frames[k] # Array1)
       => \A k \in 1..Len(results) : results[k].to = FrameStart(k + 1)

C22_ClosedNeverPooled ==
    \A c \in Conns :
        connState[c] = "closed"
           => /\ c \notin PoolSet
              /\ \A i \in Calls : CheckedOut(i) => conn[i] # c

C22_Witness ==
    \E i, j \in Calls :
        /\ kind[i] = "Do" /\ pc[i] = "done" /\ released[i] = 1
        /\ conn[i] \in Conns /\ connState[conn[i]] = "closed"
        /\ kind[j] = "Do" /\ pc[j] = "done" /\ conn[j] \in PoolSet

\* C23: Close is called at most once on any connection, whether by
\* ReleaseConnection on a full pool or by Client.Close.
C23_ClosedAtMostOnce == \A c \in Conns : connState[c] # "closedTwice"

C23_Witness ==
    /\ closePc = "done" /\ client = "ready"
    /\ \E c \in idleAtClose : connState[c] = "closed"
    /\ \E i \in Calls :
          /\ pc[i] = "done" /\ conn[i] \in Conns
          /\ conn[i] \notin idleAtClose /\ connState[conn[i]] = "closed"

\* the calls that hold connection c between GetConnection and ReleaseConnection
Holders(c) == {i \in Calls : CheckedOut(i) /\ conn[i] = c}

\* the number of places connection c is in: the idle pool (once per slot),
\* the hands of a call, the closed state
Places(c) ==
    Cardinality({k \in 1..Len(pool) : pool[k] = c})
    + Cardinality(Holders(c))
    + (IF connState[c] \in {"closed", "closedTwice"} THEN 1 ELSE 0)

\* C24: every connection ever created is in exactly one of: idle in the pool,
\* checked out by exactly one call, closed; so the open connections number at
\* most poolSize plus the calls between GetConnection and ReleaseConnection.
C24_NoLeakBoundedGrowth ==
    /\ \A c \in Conns : connState[c] # "none" => Places(c) = 1
    /\ leaked = 0
    /\ Cardinality({c \in Conns : connState[c] = "open"})
          <= poolSize + Cardinality({i \in Calls : CheckedOut(i) \/ pc[i] = "dial"})

C24_Witness ==
    /\ poolSize = 1 /\ Len(pool) = 1
    /\ \E i, j \in Calls :
          /\ i # j /\ CheckedOut(i) /\ pc[j] = "done" /\ result[j] = "ctx"
          /\ connState[conn[i]] = "open"
    /\ Cardinality({c \in Conns : connState[c] = "open"}) = 2

\* C25: the exchange goroutine of a Do call is never blocked, whatever Do is
\* doing or has done, and delivers one outcome: nothing before it has
\* finished, and afterwards one error or one reply, never both.
C25_GoroutineDeliversOnce ==
    [](\A i \in Calls :
        kind[i] = "Do" =>
           /\ (client = "ready" /\ gpc[i] \in {"send", "recv"})
                 => ENABLED (Send(i) \/ Receive(i))
           /\ ~(errChan[i] # "none" /\ replyChan[i] # "none")
           /\ gpc[i] \in {"send", "recv"}
                 => (errChan[i] = "none" /\ replyChan[i] = "none"
                     /\ result[i] \in {"none", "ctx"})
           /\ gpc[i] = "done"
                 => (errChan[i] # "none" \/ replyChan[i] # "none" \/ result[i] # "none"))

C25_Witness ==
    \E i \in Calls :
        /\ kind[i] = "Do" /\ pc[i] = "done" /\ result[i] = "ctx"
        /\ gpc[i] = "done" /\ replyChan[i] = "reply" /\ errChan[i] = "none"

\* C26: a call whose GetConnection returned a nil error holds a non-nil
\* connection, also when Client.Close has been called.
C26_NilErrorNonNilConn ==
    \A i \in Calls : CheckedOut(i) => conn[i] # NoConn

====
